---- MODULE Spec2Model ----
(***************************************************************************)
(* A model of FUSEtoOPGEE.py: the batch transform that reads the "Inputs"  *)
(* sheet of an OPGEE workbook, assembles one parameter record per column,  *)
(* and merges the records into the fuse.xml document.                      *)
(*                                                                         *)
(* Representation.                                                         *)
(*  - A Python str that carries data (a cell's text, a leaf's text, a      *)
(*    label) is a sequence of one-character strings, so that isdigit(),    *)
(*    int() and float() are computed character by character.               *)
(*  - Identifiers fixed by the program or used only as opaque keys (tags,  *)
(*    attribute values, parameter names, field names) are TLA+ strings.    *)
(*  - A Python object held in a cell or a record is a tagged record:       *)
(*    NaN, VInt(n), VFloat(n) (n.0), VStr(s), VList(l).                    *)
(*  - A dict is the sequence of its items in insertion order.              *)
(*  - An XML element is a record [tag, name, mod, cls, enabled, text,      *)
(*    kids]; a document is the sequence of the root's children.            *)
(*    Whitespace-only text and tails, which only the pretty-printer        *)
(*    touches, are not represented.                                        *)
(***************************************************************************)
EXTENDS Integers, Sequences, FiniteSets, TLC

VARIABLES
    sheet,                \* the "Inputs" DataFrame read by the run (input)
    file,                 \* the persisted fuse.xml
    pc,                   \* position of the run / of the unit under check
    root,                 \* children of the in-memory root element
    col,                  \* index in the column loop (0-based offset from 7)
    i,                    \* counter of missing display names (main's i)
    names,                \* field_name printed for each column so far
    field_updates_dicts,  \* dict: field name -> record (insertion order)
    fidx,                 \* number of items of field_updates_dicts merged so far
    csv,                  \* the rows of field_name_api.csv: <<names, APIs>>
    err,                  \* exception that ended the run, or "none"
    run,                  \* number of the run in progress
    file0,                \* history: the document the first run started from
    hist,                 \* history: the document each completed run wrote
    arg,                  \* unit checks: the argument passed
    res                   \* unit checks: the result

vars == <<sheet, file, pc, root, col, i, names, field_updates_dicts, fidx, csv,
          err, run, file0, hist, arg, res>>

pipeVars == <<sheet, file, root, col, i, names, field_updates_dicts, fidx, csv,
              err, run, file0, hist>>

unitVars == <<arg, res>>

----------------------------------------------------------------------------
(* Python objects *)

NaN == [k |-> "nan"]

VInt(n) == [k |-> "int", n |-> n]

VFloat(n) == [k |-> "float", n |-> n]

VStr(s) == [k |-> "str", s |-> s]

VList(l) == [k |-> "list", l |-> l]

\* pd.isna / pd.notna on a scalar cell
IsNa(v) == v.k = "nan"

\* Python's  val == 1  (line 61): 1 and 1.0 compare equal to 1, text does not
PyEq1(v) == (v.k = "int" /\ v.n = 1) \/ (v.k = "float" /\ v.n = 1)

----------------------------------------------------------------------------
(* Characters and strings *)

DigitChars == {"0", "1", "2", "3", "4", "5", "6", "7", "8", "9"}

\* A character such as U+00B2 for which str.isdigit() is true and int() fails
SupDigit == "^2"

DigitVal(c) ==
    CASE c = "0" -> 0 [] c = "1" -> 1 [] c = "2" -> 2 [] c = "3" -> 3
      [] c = "4" -> 4 [] c = "5" -> 5 [] c = "6" -> 6 [] c = "7" -> 7
      [] c = "8" -> 8 [] c = "9" -> 9

DigitChar(d) ==
    CASE d = 0 -> "0" [] d = 1 -> "1" [] d = 2 -> "2" [] d = 3 -> "3"
      [] d = 4 -> "4" [] d = 5 -> "5" [] d = 6 -> "6" [] d = 7 -> "7"
      [] d = 8 -> "8" [] d = 9 -> "9"

AllIn(s, S) == \A j \in 1..Len(s) : s[j] \in S

\* str.isdigit(): non-empty and every character is a digit character
IsDigit(s) == Len(s) > 0 /\ AllIn(s, DigitChars \cup {SupDigit})

RECURSIVE DecValue(_)
\* value of a string of ASCII decimal digits
DecValue(s) ==
    IF Len(s) = 0 THEN 0
    ELSE 10 * DecValue(SubSeq(s, 1, Len(s) - 1)) + DigitVal(s[Len(s)])

\* int(value) for a value that passed isdigit(): raises ValueError on a
\* digit character that is not a decimal digit
PyIntRaises(s) == ~AllIn(s, DigitChars)

PyInt(s) == DecValue(s)

RECURSIVE NatToStr(_)
NatToStr(n) ==
    IF n < 10 THEN <<DigitChar(n)>>
    ELSE NatToStr(n \div 10) \o <<DigitChar(n % 10)>>

\* str(value) for the objects a cell can hold
PyStr(v) ==
    CASE v.k = "str" -> v.s
      [] v.k = "int" -> IF v.n < 0 THEN <<"-">> \o NatToStr(-v.n) ELSE NatToStr(v.n)
      [] v.k = "float" ->
           (IF v.n < 0 THEN <<"-">> \o NatToStr(-v.n) ELSE NatToStr(v.n)) \o <<".", "0">>
      [] v.k = "nan" -> <<"n", "a", "n">>

RECURSIVE StrsUpTo(_, _)
\* all strings over alphabet A of length at most n
StrsUpTo(A, n) ==
    IF n = 0 THEN {<<>>}
    ELSE LET S == StrsUpTo(A, n - 1)
         IN  S \cup {Append(s, c) : s \in S, c \in A}

----------------------------------------------------------------------------
(* dicts: sequences of items [key, val] in insertion order *)

Has(d, key) == \E j \in 1..Len(d) : d[j].key = key

Get(d, key) == d[CHOOSE j \in 1..Len(d) : d[j].key = key].val

\* d[key] = val : an existing key keeps its position, a new one goes last
Put(d, key, val) ==
    IF Has(d, key)
    THEN [j \in 1..Len(d) |-> IF d[j].key = key THEN [key |-> key, val |-> val] ELSE d[j]]
    ELSE Append(d, [key |-> key, val |-> val])

\* del d[key]
Del(d, key) == SelectSeq(d, LAMBDA it : it.key # key)

Keys(d) == {d[j].key : j \in 1..Len(d)}

----------------------------------------------------------------------------
(* Labels of conversion_mappings (lines 205-211) *)

L_NG == <<"N", "G">>
L_N2 == <<"N", "2">>
L_CO2 == <<"C", "O", "2">>
L_None == <<"N", "o", "n", "e">>
L_DelayedCoking == <<"D", "e", "l", "a", "y", "e", "d", " ", "C", "o", "k", "i", "n", "g">>
L_Hydroconvention == <<"H", "y", "d", "r", "o", "c", "o", "n", "v", "e", "n", "t", "i", "o", "n">>
L_Combined == <<"C", "o", "m", "b", "i", "n", "e", "d", " ", "H", "y", "d", "r", "o", "c", "o", "n", "v", "e", "r", "s", "i", "o", "n", " ", "a", "n", "d", " ", "F", "l", "u", "i", "d", " ", "C", "o", "k", "i", "n", "g">>
L_Minimal == <<"M", "i", "n", "i", "m", "a", "l">>
L_AcidGas == <<"A", "c", "i", "d", " ", "G", "a", "s">>
L_WetGas == <<"W", "e", "t", " ", "G", "a", "s">>
L_AcidWetGas == <<"A", "c", "i", "d", " ", "W", "e", "t", " ", "G", "a", "s">>
L_SourGas == <<"S", "o", "u", "r", " ", "G", "a", "s", " ", "R", "e", "i", "n", "j", "e", "c", "t", "i", "o", "n">>
L_Membrane == <<"C", "O", "2", "-", "E", "O", "R", " ", "M", "e", "m", "b", "r", "a", "n", "e">>
L_RyanHolmes == <<"C", "O", "2", "-", "E", "O", "R", " ", "R", "y", "a", "n", " ", "H", "o", "l", "m", "e", "s">>
L_LowCarbon == <<"L", "o", "w", " ", "c", "a", "r", "b", "o", "n">>
L_MedCarbon == <<"M", "e", "d", " ", "c", "a", "r", "b", "o", "n">>
L_HighCarbon == <<"H", "i", "g", "h", " ", "c", "a", "r", "b", "o", "n">>
L_Low == <<"L", "o", "w">>
L_Med == <<"M", "e", "d">>
L_High == <<"H", "i", "g", "h">>

\* conversion_mappings, in the order the dict literal lists its keys
conversion_mappings ==
    << [key |-> "flood_gas_type",
        val |-> (1 :> L_NG) @@ (2 :> L_N2) @@ (3 :> L_CO2)],
       [key |-> "upgrader_type",
        val |-> (0 :> L_None) @@ (1 :> L_DelayedCoking) @@ (2 :> L_Hydroconvention)
                @@ (3 :> L_Combined)],
       [key |-> "gas_processing_path",
        val |-> (1 :> L_None) @@ (2 :> L_Minimal) @@ (3 :> L_AcidGas) @@ (4 :> L_WetGas)
                @@ (5 :> L_AcidWetGas) @@ (6 :> L_SourGas) @@ (7 :> L_Membrane)
                @@ (8 :> L_RyanHolmes)],
       [key |-> "ecosystem_richness",
        val |-> (1 :> L_LowCarbon) @@ (2 :> L_MedCarbon) @@ (3 :> L_HighCarbon)],
       [key |-> "field_development_intensity",
        val |-> (1 :> L_Low) @@ (2 :> L_Med) @@ (3 :> L_High)] >>

OneHotKeys == {"ecosystem_richness", "field_development_intensity"}

----------------------------------------------------------------------------
(* apply_conversions (lines 51-67) *)

RECURSIVE OneHotScan(_, _, _)
\* lines 58-62: value starts as the list and becomes the 1-based index of
\* each element equal to 1 in turn, so the last one wins
OneHotScan(l, j, value) ==
    IF j > Len(l) THEN value
    ELSE OneHotScan(l, j + 1, IF PyEq1(l[j]) THEN VInt(j) ELSE value)

\* Python truth of  value  at line 63: an index is an int >= 1, a list is
\* true when it is not empty
Truthy(value) == IF value.k = "int" THEN value.n # 0 ELSE Len(value.l) > 0

\* One iteration of the loop at line 51 for the key at position m of the
\* mapping: the record after it and the exception raised, if any
ConvertKey(rec, m) ==
    LET key == conversion_mappings[m].key
        mapping == conversion_mappings[m].val
    IN  IF ~Has(rec, key) THEN [rec |-> rec, err |-> "none"]
        ELSE LET value == Get(rec, key)
             IN  IF key \in OneHotKeys
                 THEN LET v == OneHotScan(value.l, 1, value)
                      IN  IF ~Truthy(v) THEN [rec |-> rec, err |-> "none"]
                          ELSE IF v.k = "list"
                               THEN [rec |-> rec, err |-> "TypeError"]
                          ELSE IF v.n \notin DOMAIN mapping
                               THEN [rec |-> rec, err |-> "KeyError"]
                          ELSE [rec |-> Put(rec, key, VStr(mapping[v.n])), err |-> "none"]
                 ELSE IF ~IsDigit(value.s) THEN [rec |-> rec, err |-> "none"]
                      ELSE IF PyIntRaises(value.s)
                           THEN [rec |-> rec, err |-> "ValueError"]
                      ELSE IF PyInt(value.s) \in DOMAIN mapping
                           THEN [rec |-> Put(rec, key, VStr(mapping[PyInt(value.s)])),
                                 err |-> "none"]
                      ELSE [rec |-> rec, err |-> "none"]

RECURSIVE ApplyFrom(_, _)
ApplyFrom(rec, m) ==
    IF m > Len(conversion_mappings) THEN [rec |-> rec, err |-> "none"]
    ELSE LET r == ConvertKey(rec, m)
         IN  IF r.err # "none" THEN r ELSE ApplyFrom(r.rec, m + 1)

\* apply_conversions(field_updates, conversion_mappings): the record as the
\* call leaves it (it is mutated in place) and the exception that left the
\* call, "none" when it returned
apply_conversions(field_updates) == ApplyFrom(field_updates, 1)

----------------------------------------------------------------------------
(* float(value) (line 97) *)

\* str.strip() of the blanks float() ignores
RECURSIVE LStrip(_)
LStrip(s) == IF Len(s) > 0 /\ s[1] = " " THEN LStrip(Tail(s)) ELSE s

RECURSIVE RStrip(_)
RStrip(s) ==
    IF Len(s) > 0 /\ s[Len(s)] = " " THEN RStrip(SubSeq(s, 1, Len(s) - 1)) ELSE s

Unsigned(s) == IF Len(s) > 0 /\ s[1] \in {"+", "-"} THEN Tail(s) ELSE s

\* index of the first character of s that is in S, 0 when there is none
FirstIn(s, S) ==
    IF \E j \in 1..Len(s) : s[j] \in S
    THEN CHOOSE j \in 1..Len(s) : s[j] \in S /\ \A h \in 1..(j - 1) : s[h] \notin S
    ELSE 0

\* largest and smallest decimal exponents of a binary64 (1.797e308, 4.94e-324)
MaxExp10 == 308
MinExp10 == -324

\* The class of float(s): "error" when it raises ValueError, else "zero",
\* "finite" (finite and not zero), "inf" or "nan".  The grammar is
\* [sign] (inf | infinity | nan | digits [. digits] [e [sign] digits]) between
\* optional blanks; a decimal beyond the binary64 range rounds to inf or to 0.
PyFloat(s) ==
    LET body == Unsigned(RStrip(LStrip(s)))
        ePos == FirstIn(body, {"e", "E"})
        mant == IF ePos = 0 THEN body ELSE SubSeq(body, 1, ePos - 1)
        ex == IF ePos = 0 THEN <<>> ELSE SubSeq(body, ePos + 1, Len(body))
        exDigits == Unsigned(ex)
        exOk == ePos = 0 \/ (Len(exDigits) > 0 /\ AllIn(exDigits, DigitChars))
        dot == FirstIn(mant, {"."})
        ip == IF dot = 0 THEN mant ELSE SubSeq(mant, 1, dot - 1)
        fp == IF dot = 0 THEN <<>> ELSE SubSeq(mant, dot + 1, Len(mant))
        digits == ip \o fp
        mantOk == /\ Len(digits) > 0
                  /\ AllIn(ip, DigitChars)
                  /\ AllIn(fp, DigitChars)
    IN  IF body \in {<<"i", "n", "f">>, <<"i", "n", "f", "i", "n", "i", "t", "y">>}
        THEN "inf"
        ELSE IF body = <<"n", "a", "n">> THEN "nan"
        ELSE IF ~(exOk /\ mantOk) THEN "error"
        ELSE IF AllIn(digits, {"0"}) THEN "zero"
        ELSE LET exVal == IF ePos = 0 THEN 0
                          ELSE IF ex[1] = "-" THEN -DecValue(exDigits)
                          ELSE DecValue(exDigits)
                 p == FirstIn(digits, DigitChars \ {"0"})
                 lead == Len(ip) - p + exVal
                 two == 10 * DigitVal(digits[p])
                        + (IF p < Len(digits) THEN DigitVal(digits[p + 1]) ELSE 0)
             IN  IF lead > MaxExp10 \/ (lead = MaxExp10 /\ two >= 18) THEN "inf"
                 ELSE IF lead < MinExp10 \/ (lead = MinExp10 /\ two < 25) THEN "zero"
                 ELSE "finite"

----------------------------------------------------------------------------
(* create_field_element (lines 87-113) *)

NoAttr == ""

Elem(tag, name, mod, cls, enabled, text, kids) ==
    [tag |-> tag, name |-> name, mod |-> mod, cls |-> cls, enabled |-> enabled,
     text |-> text, kids |-> kids]

T_all == <<"a", "l", "l">>

\* <Group>all</Group>
GroupAll == Elem("Group", NoAttr, NoAttr, NoAttr, NoAttr, T_all, <<>>)

\* <A name=key>text</A>
Leaf(key, text) == Elem("A", key, NoAttr, NoAttr, NoAttr, text, <<>>)

\* the minimum value written at line 101
Epsilon == <<"0", ".", "0", "0", "0", "0", "1">>

\* mutant: the text is compared with "0" instead of the parsed value with zero
GorIsZero_TextCompare(value) == value = <<"0">> \/ PyFloat(value) = "error"

\* lines 97-100: the parsed value, 0.0 on ValueError, is compared with zero
GorIsZero(value) == PyFloat(value) \in {"error", "zero"}

\* lines 92-101: the text persisted for one item of the record
LeafText(key, v) ==
    LET value == IF IsNa(v) THEN <<>> ELSE PyStr(v)
    IN  IF key \in {"GOR", "WOR"} /\ GorIsZero(value) THEN Epsilon ELSE value

\* lines 103-112: the children one item adds to the Field element
ItemElements(key, v) ==
    IF key \in {"fraction_diluent", "heater_treater"}
    THEN LET process_class == IF key = "fraction_diluent" THEN "HeavyOilDilution"
                              ELSE "CrudeOilDewatering"
         IN  << Elem("Process", NoAttr, NoAttr, process_class, "false", <<>>, <<>>),
                Elem("Process", NoAttr, NoAttr, process_class, NoAttr, <<>>,
                     <<Leaf(key, LeafText(key, v))>>) >>
    ELSE <<Leaf(key, LeafText(key, v))>>

RECURSIVE FieldChildren(_, _)
FieldChildren(field_updates, j) ==
    IF j > Len(field_updates) THEN <<>>
    ELSE ItemElements(field_updates[j].key, field_updates[j].val)
         \o FieldChildren(field_updates, j + 1)

create_field_element(field_name, field_updates) ==
    Elem("Field", field_name, "template", NoAttr, NoAttr, <<>>,
         <<GroupAll>> \o FieldChildren(field_updates, 1))

----------------------------------------------------------------------------
(* Unit check of apply_conversions: records as main assembles them *)

\* longest scalar code drawn
MaxCodeLen == 2

\* a one-hot list is a slice of three cells (lines 247-248)
OneHotLen == 3

CodeChars == {"0", "2", "9", "+", "x", SupDigit}

RECURSIVE ListsUpTo(_, _)
ListsUpTo(C, n) ==
    IF n = 0 THEN {<<>>}
    ELSE LET S == ListsUpTo(C, n - 1)
         IN  S \cup {Append(l, c) : l \in S, c \in C}

\* zero or one item under the given key
Opt(key, V) == {<<>>} \cup {<<[key |-> key, val |-> v]>> : v \in V}

ScalarKeys == {"flood_gas_type", "upgrader_type", "gas_processing_path"}

ConvRecords ==
    { <<[key |-> "API", val |-> VStr(<<"2">>)], [key |-> sk, val |-> VStr(s)]>> \o e \o f :
        sk \in ScalarKeys,
        s \in StrsUpTo(CodeChars, MaxCodeLen),
        e \in Opt("ecosystem_richness",
                  {VList(l) : l \in ListsUpTo({VInt(0), VInt(1), NaN}, OneHotLen)}),
        f \in Opt("field_development_intensity",
                  {VList(l) : l \in ListsUpTo({VInt(0), VFloat(1)}, OneHotLen) \ {<<>>}}) }

\* no exception has left the run
NoError == [type |-> "none", line |-> 0]

PipeIdle ==
    /\ sheet = [nrows |-> 0, cols |-> <<>>]
    /\ file = [exists |-> FALSE, kids |-> <<>>]
    /\ root = <<>>
    /\ col = 0
    /\ i = 0
    /\ names = <<>>
    /\ field_updates_dicts = <<>>
    /\ fidx = 0
    /\ csv = <<>>
    /\ err = NoError
    /\ run = 0
    /\ file0 = [exists |-> FALSE, kids |-> <<>>]
    /\ hist = <<>>

NoResult == [rec |-> <<>>, err |-> "none"]

InitConv ==
    /\ PipeIdle
    /\ pc = "conv_call"
    /\ arg \in ConvRecords
    /\ res = NoResult

\* the call  field_updates = apply_conversions(field_updates, conversion_mappings)
CallApplyConversions ==
    /\ pc = "conv_call"
    /\ res' = apply_conversions(arg)
    /\ pc' = "conv_done"
    /\ UNCHANGED <<arg, pipeVars>>

NextConv == CallApplyConversions

SpecConv == InitConv /\ [][NextConv]_vars

\* 1-based position of the last element equal to 1, 0 when there is none
LastOne(l) ==
    IF \E j \in 1..Len(l) : PyEq1(l[j])
    THEN CHOOSE j \in 1..Len(l) : PyEq1(l[j]) /\ \A h \in (j + 1)..Len(l) : ~PyEq1(l[h])
    ELSE 0

MappingOf(key) ==
    conversion_mappings[CHOOSE m \in 1..Len(conversion_mappings) :
                            conversion_mappings[m].key = key].val

\* C1: a record whose one-hot list holds no element equal to 1 goes through
\* apply_conversions without an exception, and the list is still in the
\* record, unconverted, afterwards.
C1_NoActivePositionPassesThrough ==
    pc = "conv_done" =>
        \A key \in OneHotKeys :
            (Has(arg, key) /\ LastOne(Get(arg, key).l) = 0) =>
                /\ res.err = "none"
                /\ Get(res.rec, key) = Get(arg, key)

\* C10: apply_conversions turns every one-hot list with a 1 into the label
\* at the position of its last 1, every scalar made of decimal digits whose
\* number is a key of its table into that label, and leaves every other
\* value, and the keys and their order, as they were.
C10_ResolvesEveryConvertible ==
    pc = "conv_done" =>
        /\ Len(res.rec) = Len(arg)
        /\ \A j \in 1..Len(arg) :
            LET key == arg[j].key
                v == arg[j].val
                w == res.rec[j].val
            IN  /\ res.rec[j].key = key
                /\ IF key \in OneHotKeys
                   THEN IF LastOne(v.l) # 0
                        THEN w = VStr(MappingOf(key)[LastOne(v.l)])
                        ELSE TRUE
                   ELSE IF key \in ScalarKeys /\ Len(v.s) > 0 /\ AllIn(v.s, DigitChars)
                           /\ DecValue(v.s) \in DOMAIN MappingOf(key)
                        THEN w = VStr(MappingOf(key)[DecValue(v.s)])
                        ELSE w = v

----------------------------------------------------------------------------
(* Unit check of create_field_element on the GOR and WOR items *)

\* longest GOR/WOR text drawn
MaxValLen == 3

FloatChars == {"0", "5", ".", "-", "e", " "}

FloatTokens == {<<"n", "a", "n">>, <<"i", "n", "f">>, <<"-", "i", "n", "f">>}

\* what the record can hold for GOR or WOR: text, or a missing value
RatioValues ==
    {VStr(s) : s \in StrsUpTo(FloatChars, MaxValLen) \cup FloatTokens} \cup {NaN}

RatioRecords ==
    { << [key |-> "API", val |-> VStr(<<"0">>)],
         [key |-> "GOR", val |-> IF which = "GOR" THEN v ELSE VStr(<<"0", ".", "0">>)],
         [key |-> "WOR", val |-> IF which = "WOR" THEN v ELSE VStr(<<"5">>)],
         [key |-> "fraction_diluent", val |-> VStr(<<"0">>)] >> :
        which \in {"GOR", "WOR"}, v \in RatioValues }

InitField ==
    /\ PipeIdle
    /\ pc = "field_call"
    /\ arg \in {[name |-> "F1", rec |-> r] : r \in RatioRecords}
    /\ res = NoResult

\* the call  new_field = create_field_element(field_name, field_updates)
CallCreateFieldElement ==
    /\ pc = "field_call"
    /\ res' = create_field_element(arg.name, arg.rec)
    /\ pc' = "field_done"
    /\ UNCHANGED <<arg, pipeVars>>

NextField == CallCreateFieldElement

SpecField == InitField /\ [][NextField]_vars

\* text of the flat leaf <A name=key> of a Field element
LeafTextOf(node, key) ==
    node.kids[CHOOSE j \in 1..Len(node.kids) :
                  node.kids[j].tag = "A" /\ node.kids[j].name = key].text

\* the text the record holds under key ('' for a missing value)
SourceText(rec, key) ==
    IF IsNa(Get(rec, key)) THEN <<>> ELSE PyStr(Get(rec, key))

\* C6 as stated: the GOR and WOR leaves hold a valid non-zero number (the
\* epsilon is one), and a missing or non-numeric source value is persisted
\* as the epsilon.
C6_AlwaysNonZeroNumber ==
    pc = "field_done" =>
        \A key \in {"GOR", "WOR"} :
            LET t == LeafTextOf(res, key)
                src == SourceText(arg.rec, key)
            IN  /\ PyFloat(t) = "finite"
                /\ PyFloat(src) \in {"error", "nan"} => t = Epsilon

\* C6 amended: the GOR and WOR leaves never hold text that float() reads as
\* zero or rejects: a source value that float() rejects or reads as zero is
\* persisted as the epsilon, and every other source value, which includes
\* the non-finite texts "inf" and "nan", is persisted as it is.
C6_NeverZero ==
    pc = "field_done" =>
        \A key \in {"GOR", "WOR"} :
            LET t == LeafTextOf(res, key)
                src == SourceText(arg.rec, key)
            IN  /\ PyFloat(t) \in {"finite", "inf", "nan"}
                /\ PyFloat(src) \in {"error", "zero"} => t = Epsilon
                /\ PyFloat(src) \in {"finite", "inf", "nan"} => t = src
                /\ PyFloat(Epsilon) = "finite"

\* a GOR written as a zero other than the text "0" was replaced by the epsilon
C6_Witness ==
    /\ pc = "field_done"
    /\ SourceText(arg.rec, "GOR") = <<"-", ".", "0">>
    /\ LeafTextOf(res, "GOR") = Epsilon
    /\ LeafTextOf(res, "API") = <<"0">>

----------------------------------------------------------------------------
(* The "Inputs" sheet.  sheet.nrows is df.shape[0]; sheet.cols lists the    *)
(* columns from index 7 on.  A column is described by its header cell       *)
(* (hdr: NaN or a name), the cells of the two selector blocks (eco: rows    *)
(* 91-93, fdi: rows 95-97), the cells of the GOR and upgrader_type rows,    *)
(* and blank, which leaves every other cell empty; a cell not described     *)
(* holds its own row number.                                                *)

VName(n) == [k |-> "name", name |-> n]

\* the row ranges of extract_field_data (lines 20-25), 1-based, inclusive
ranges ==
    << <<8, 16>>, <<19, 30>>, <<33, 33>>, <<35, 41>>, <<45, 50>>,
       <<57, 58>>, <<61, 67>>, <<69, 71>>, <<76, 76>>,
       <<85, 87>>, <<91, 93>>, <<95, 97>>,
       <<101, 105>>, <<107, 112>>, <<114, 114>> >>

\* lines 179-195
parameters ==
    << "downhole_pump", "water_reinjection", "natural_gas_reinjection", "water_flooding",
       "gas_lifting", "gas_flooding", "steam_flooding", "oil_sands_mine_upgrader",
       "oil_sands_mine_no_upgrader", "country", "name", "age", "depth", "oil_prod",
       "num_prod_wells", "num_water_inj_wells", "well_diam", "prod_index", "res_press",
       "res_temp", "offshore", "API", "gas_comp_N2", "gas_comp_CO2", "gas_comp_C1",
       "gas_comp_C2", "gas_comp_C3", "gas_comp_C4", "gas_comp_H2S", "GOR", "WOR", "WIR",
       "GLIR", "GFIR", "flood_gas_type", "frac_CO2_breakthrough", "FILLER_source_of_CO2",
       "FILLER_perc_seq_credit", "SOR", "fraction_elec_onsite",
       "fraction_remaining_gas_inj", "fraction_water_reinjected", "fraction_steam_cogen",
       "fraction_steam_solar", "heater_treater", "stabilizer_column", "upgrader_type",
       "gas_processing_path", "FOR", "frac_venting", "fraction_diluent",
       "ecosystem_richness", "field_development_intensity", "frac_transport_tanker",
       "frac_transport_barge", "frac_transport_pipeline", "frac_transport_rail",
       "frac_transport_truck", "transport_dist_tanker", "transport_dist_barge",
       "transport_dist_pipeline", "transport_dist_rail", "transport_dist_truck",
       "ocean_tanker_size", "small_sources_emissions" >>

\* lines 199-202
variables_to_remove ==
    << "ocean_tanker_size", "small_sources_emissions", "FILLER_source_of_CO2",
       "FILLER_perc_seq_credit", "oil_sands_mine_no_upgrader", "oil_sands_mine_upgrader" >>

Min(a, b) == IF a < b THEN a ELSE b

RECURSIVE RowsFrom(_)
\* the sheet rows the schema reads, in order
RowsFrom(m) ==
    IF m > Len(ranges) THEN <<>>
    ELSE [j \in 1..(ranges[m][2] - ranges[m][1] + 1) |-> ranges[m][1] + j - 1]
         \o RowsFrom(m + 1)

SchemaRows == RowsFrom(1)

\* the row that feeds a parameter listed before the selector blocks
RowOf(param) ==
    SchemaRows[CHOOSE j \in 1..Len(parameters) : parameters[j] = param]

GorRow == RowOf("GOR")

UpgraderRow == RowOf("upgrader_type")

\* sheet.iloc[r - 1, col] for a data row r
Cell(c, r) ==
    IF r \in 91..93 THEN c.eco[r - 90]
    ELSE IF r \in 95..97 THEN c.fdi[r - 94]
    ELSE IF c.blank THEN NaN
    ELSE IF r = GorRow THEN c.gor
    ELSE IF r = UpgraderRow THEN c.upg
    ELSE VInt(r)

\* sheet.iloc[start-1:end, col].tolist(): a slice is clipped to the rows
\* the sheet has
RangeCells(sh, c, start, end) ==
    LET last == Min(end, sh.nrows)
    IN  IF last < start THEN <<>>
        ELSE [j \in 1..(last - start + 1) |-> Cell(sh.cols[c], start + j - 1)]

RECURSIVE ExtractFrom(_, _, _)
ExtractFrom(sh, c, m) ==
    IF m > Len(ranges) THEN <<>>
    ELSE RangeCells(sh, c, ranges[m][1], ranges[m][2]) \o ExtractFrom(sh, c, m + 1)

\* extract_field_data(sheet, col) (lines 20-29)
extract_field_data(sh, c) == ExtractFrom(sh, c, 1)

----------------------------------------------------------------------------
(* One iteration of the column loop of main (lines 234-272) *)

\* Python's s[a:b] with 0-based a <= b
Slice(s, a, b) == SubSeq(s, a + 1, Min(b, Len(s)))

\* mutant: only three of the four positions are dropped
PopIndexes_ThreeSlots(values) == SubSeq(values, 1, 52) \o SubSeq(values, 56, Len(values))

\* the list after  for index in sorted(indexes_to_pop, reverse=True):
\* values.pop(index)  (lines 250-252): 0-based positions 52..55 are dropped
PopIndexes(values) == SubSeq(values, 1, 52) \o SubSeq(values, 57, Len(values))

\* the first pop, values.pop(55), raises IndexError on a shorter list
PopRaises(values) == Len(values) < 56

\* lines 256-259: the dict comprehension over the overlapping prefix
ZipParameters(values) ==
    [j \in 1..Min(Len(parameters), Len(values)) |->
        [key |-> parameters[j],
         val |-> IF IsNa(values[j]) THEN VStr(<<>>) ELSE VStr(PyStr(values[j]))]]

RECURSIVE RemoveVariables(_, _)
\* lines 266-268
RemoveVariables(rec, m) ==
    IF m > Len(variables_to_remove) THEN rec
    ELSE RemoveVariables(Del(rec, variables_to_remove[m]), m + 1)

\* lines 256-263: the positional pairing, then the two lists put under
\* their names (a key the dict holds keeps its place)
PairRecord(values, ecosystem_richness_values, field_development_intensity_values) ==
    Put(Put(ZipParameters(values),
            "ecosystem_richness", VList(ecosystem_richness_values)),
        "field_development_intensity", VList(field_development_intensity_values))

\* lines 256-268: the record before the conversions
AssembleRecord(values, ecosystem_richness_values, field_development_intensity_values) ==
    RemoveVariables(
        PairRecord(values, ecosystem_richness_values,
                   field_development_intensity_values),
        1)

\* mutant: the comprehension's loop variable is main's i (a list
\* comprehension of Python 2, or a plain for loop, would leave it there)
CounterAfterAssembly_Leak(iOuter, n) == IF n > 0 THEN n - 1 ELSE iOuter

\* The comprehension at lines 256-259 names its loop variable i, like the
\* counter of missing names; a comprehension has a scope of its own, so the
\* counter keeps its value.
CounterAfterAssembly(iOuter, n) == iOuter

\* line 241
SyntheticName(n) == "Field " \o ToString(500 + n)

\* pd.isna(field_name) decides whether the counter moves (lines 239-241)
CounterAfterHeader(hdr, iOld) == IF IsNa(hdr) THEN iOld + 1 ELSE iOld

FieldName(hdr, iNew) == IF IsNa(hdr) THEN SyntheticName(iNew) ELSE hdr.name

\* The effect of the loop body on column c: the exception that leaves it
\* (with the line that raises), the counter, whether field_name was printed,
\* and field_updates_dicts.
ProcessColumnResult(sh, c, iOld, dicts) ==
    IF sh.nrows < 4
    THEN [err |-> [type |-> "IndexError", line |-> 236], i |-> iOld,
          printed |-> <<>>, dicts |-> dicts]
    ELSE
    LET hdr == sh.cols[c].hdr
        i1 == CounterAfterHeader(hdr, iOld)
        field_name == FieldName(hdr, i1)
        values == extract_field_data(sh, c)
        ecosystem_richness_values == Slice(values, 51, 54)
        field_development_intensity_values == Slice(values, 54, 57)
        popped == PopIndexes(values)
        rec == AssembleRecord(popped, ecosystem_richness_values,
                              field_development_intensity_values)
        conv == apply_conversions(rec)
        i2 == CounterAfterAssembly(i1, Min(Len(parameters), Len(popped)))
    IN  IF PopRaises(values)
        THEN [err |-> [type |-> "IndexError", line |-> 252], i |-> i1,
              printed |-> <<field_name>>, dicts |-> dicts]
        ELSE IF ~\E j \in 1..Len(popped) : ~IsNa(popped[j])
        THEN [err |-> NoError, i |-> i1, printed |-> <<field_name>>, dicts |-> dicts]
        ELSE IF conv.err # "none"
        THEN [err |-> [type |-> conv.err, line |-> IF conv.err = "ValueError" THEN 65 ELSE 64],
              i |-> i2, printed |-> <<field_name>>, dicts |-> dicts]
        ELSE [err |-> NoError, i |-> i2, printed |-> <<field_name>>,
              dicts |-> Put(dicts, field_name, conv.rec)]

----------------------------------------------------------------------------
(* Element trees.  A path is the sequence of child indexes leading from the *)
(* root to an element.                                                      *)

RECURSIVE PathsFrom(_, _)
\* the paths of all descendants, in document order, from child j on
PathsFrom(kids, j) ==
    IF j > Len(kids) THEN <<>>
    ELSE LET below == PathsFrom(kids[j].kids, 1)
         IN  << <<j>> >> \o [n \in 1..Len(below) |-> <<j>> \o below[n]]
             \o PathsFrom(kids, j + 1)

PathsOf(kids) == PathsFrom(kids, 1)

RECURSIVE NodeAt(_, _)
NodeAt(kids, path) ==
    IF Len(path) = 1 THEN kids[path[1]] ELSE NodeAt(kids[path[1]].kids, Tail(path))

RECURSIVE ReplaceAt(_, _, _)
ReplaceAt(kids, path, node) ==
    [kids EXCEPT ![path[1]] =
        IF Len(path) = 1 THEN node
        ELSE [@ EXCEPT !.kids = ReplaceAt(@, Tail(path), node)]]

RemoveIndex(kids, j) == SubSeq(kids, 1, j - 1) \o SubSeq(kids, j + 1, Len(kids))

\* root.findall('.//Field[@modifies="template"]') (lines 144, 310)
IsTemplateField(node) == node.tag = "Field" /\ node.mod = "template"

TemplateFieldPaths(kids) ==
    SelectSeq(PathsOf(kids), LAMBDA path : IsTemplateField(NodeAt(kids, path)))

----------------------------------------------------------------------------
(* Analysis upsert (lines 285-306) *)

T_oil == <<"o", "i", "l">>
T_100 == <<"1", "0", "0">>
T_AR5 == <<"A", "R", "5">>

\* lines 172-176
analysis_updates ==
    << [key |-> "functional_unit", val |-> T_oil],
       [key |-> "GWP_horizon", val |-> T_100],
       [key |-> "GWP_version", val |-> T_AR5] >>

IsFuseRun(node) == node.tag = "Analysis" /\ node.name = "FUSE_run"

\* root.find('.//Analysis[@name="FUSE_run"]'): the path of the first match
\* in document order, <<>> for None
FindAnalysis(kids) ==
    LET hits == SelectSeq(PathsOf(kids), LAMBDA path : IsFuseRun(NodeAt(kids, path)))
    IN  IF Len(hits) = 0 THEN <<>> ELSE hits[1]

\* lines 292-295
EnsureGroup(analysis) ==
    IF \E j \in 1..Len(analysis.kids) :
           analysis.kids[j].tag = "Group" /\ analysis.kids[j].text = T_all
    THEN analysis
    ELSE [analysis EXCEPT !.kids = Append(@, GroupAll)]

\* mutant: the leaf is appended without looking for an existing one
UpsertLeaf_AlwaysAppend(analysis, key, value) ==
    [analysis EXCEPT !.kids = Append(@, Leaf(key, value))]

\* lines 300-306: analysis.find('A[@name=key]') is the first child leaf of
\* that name; its text is overwritten, or the leaf is created
UpsertLeaf(analysis, key, value) ==
    LET hits == {j \in 1..Len(analysis.kids) :
                    analysis.kids[j].tag = "A" /\ analysis.kids[j].name = key}
    IN  IF hits = {}
        THEN [analysis EXCEPT !.kids = Append(@, Leaf(key, value))]
        ELSE LET j == CHOOSE j \in hits : \A h \in hits : j <= h
             IN  [analysis EXCEPT !.kids[j].text = value]

RECURSIVE UpsertLeaves(_, _)
UpsertLeaves(analysis, m) ==
    IF m > Len(analysis_updates) THEN analysis
    ELSE UpsertLeaves(
             UpsertLeaf(analysis, analysis_updates[m].key, analysis_updates[m].val),
             m + 1)

\* lines 285-306 on the children of root
UpsertAnalysisIn(kids) ==
    LET found == FindAnalysis(kids)
        kids1 == IF found = <<>>
                 THEN Append(kids, Elem("Analysis", "FUSE_run", NoAttr, NoAttr, NoAttr,
                                        <<>>, <<>>))
                 ELSE kids
        path == IF found = <<>> THEN <<Len(kids1)>> ELSE found
    IN  ReplaceAt(kids1, path, UpsertLeaves(EnsureGroup(NodeAt(kids1, path)), 1))

----------------------------------------------------------------------------
(* Field reconciliation (lines 309-328) *)

\* mutant: every Field element is taken for a managed one
StalePaths_AnyField(kids, required) ==
    SelectSeq(PathsOf(kids),
              LAMBDA path : LET n == NodeAt(kids, path)
                            IN  n.tag = "Field" /\ n.name \notin required)

\* lines 310-318: the elements of existing_fields whose name is not required
StalePaths(kids, required) ==
    SelectSeq(TemplateFieldPaths(kids),
              LAMBDA path : NodeAt(kids, path).name \notin required)

\* line 319, root.remove(field), raises ValueError for an element that is
\* not a child of root
RemoveStaleRaises(kids, required) ==
    LET stale == StalePaths(kids, required)
    IN  \E n \in 1..Len(stale) : Len(stale[n]) > 1

\* lines 316-319 when no removal raises: the children of root that stay
RemoveStaleIn(kids, required) ==
    LET stale == StalePaths(kids, required)
        gone == {stale[n][1] : n \in 1..Len(stale)}
        keep == SelectSeq([j \in 1..Len(kids) |-> j], LAMBDA j : j \notin gone)
    IN  [n \in 1..Len(keep) |-> kids[keep[n]]]

\* line 323: root.find('.//Field[@name=N][@modifies="template"]')
FindField(kids, field_name) ==
    LET hits == SelectSeq(TemplateFieldPaths(kids),
                          LAMBDA path : NodeAt(kids, path).name = field_name)
    IN  IF Len(hits) = 0 THEN <<>> ELSE hits[1]

\* line 325 raises ValueError when the element found is not a child of root
MergeFieldRaises(kids, field_name) == Len(FindField(kids, field_name)) > 1

\* lines 323-328: the node found is removed and a fresh one appended
MergeFieldIn(kids, field_name, field_updates) ==
    LET found == FindField(kids, field_name)
        kids1 == IF found = <<>> THEN kids ELSE RemoveIndex(kids, found[1])
    IN  Append(kids1, create_field_element(field_name, field_updates))

----------------------------------------------------------------------------
(* export_name_api (lines 140-154) *)

ChildLeaves(node, key) ==
    SelectSeq(node.kids, LAMBDA kid : kid.tag = "A" /\ kid.name = key)

export_name_api(kids) ==
    LET fields == SelectSeq(TemplateFieldPaths(kids),
                            LAMBDA path : /\ Len(ChildLeaves(NodeAt(kids, path), "name")) > 0
                                          /\ Len(ChildLeaves(NodeAt(kids, path), "API")) > 0)
    IN  << [n \in 1..Len(fields) |-> ChildLeaves(NodeAt(kids, fields[n]), "name")[1].text],
           [n \in 1..Len(fields) |-> ChildLeaves(NodeAt(kids, fields[n]), "API")[1].text] >>

----------------------------------------------------------------------------
(* main, step by step *)

\* runs of the program in a behaviour
MaxRuns == 2

Aborted(type, line) == [type |-> type, line |-> line]

\* lines 160-233: the document is parsed, or a new root is made when the
\* file is missing or empty, and the loop variables are initialised
StartRun ==
    /\ pc = "idle"
    /\ run < MaxRuns
    /\ run' = run + 1
    /\ root' = IF file.exists THEN file.kids ELSE <<>>
    /\ col' = 0
    /\ i' = 0
    /\ names' = <<>>
    /\ field_updates_dicts' = <<>>
    /\ fidx' = 0
    /\ pc' = "columns"
    /\ UNCHANGED <<sheet, file, csv, err, file0, hist, unitVars>>

\* lines 234-272: one column of the sheet
ProcessColumn ==
    /\ pc = "columns"
    /\ col < Len(sheet.cols)
    /\ LET r == ProcessColumnResult(sheet, col + 1, i, field_updates_dicts)
       IN  /\ i' = r.i
           /\ names' = names \o r.printed
           /\ field_updates_dicts' = r.dicts
           /\ err' = r.err
           /\ pc' = IF r.err = NoError THEN "columns" ELSE "aborted"
    /\ col' = col + 1
    /\ UNCHANGED <<sheet, file, root, fidx, csv, run, file0, hist, unitVars>>

\* lines 285-306
UpsertAnalysis ==
    /\ pc = "columns"
    /\ col = Len(sheet.cols)
    /\ root' = UpsertAnalysisIn(root)
    /\ pc' = "stale"
    /\ UNCHANGED <<sheet, file, col, i, names, field_updates_dicts, fidx, csv, err, run,
                   file0, hist, unitVars>>

\* lines 309-319
RemoveStale ==
    /\ pc = "stale"
    /\ LET required_field_names == Keys(field_updates_dicts)
       IN  IF RemoveStaleRaises(root, required_field_names)
           THEN /\ err' = Aborted("ValueError", 319)
                /\ pc' = "aborted"
                /\ root' = root
           ELSE /\ root' = RemoveStaleIn(root, required_field_names)
                /\ pc' = "fields"
                /\ err' = err
    /\ UNCHANGED <<sheet, file, col, i, names, field_updates_dicts, fidx, csv, run,
                   file0, hist, unitVars>>

\* lines 322-328: one item of field_updates_dicts
MergeField ==
    /\ pc = "fields"
    /\ fidx < Len(field_updates_dicts)
    /\ LET item == field_updates_dicts[fidx + 1]
       IN  IF MergeFieldRaises(root, item.key)
           THEN /\ err' = Aborted("ValueError", 325)
                /\ pc' = "aborted"
                /\ root' = root
           ELSE /\ root' = MergeFieldIn(root, item.key, item.val)
                /\ pc' = "fields"
                /\ err' = err
    /\ fidx' = fidx + 1
    /\ UNCHANGED <<sheet, file, col, i, names, field_updates_dicts, csv, run, file0, hist,
                   unitVars>>

\* lines 338-357: the side export, then the document overwrites the file
WriteDocument ==
    /\ pc = "fields"
    /\ fidx = Len(field_updates_dicts)
    /\ csv' = export_name_api(root)
    /\ file' = [exists |-> TRUE, kids |-> root]
    /\ hist' = Append(hist, root)
    /\ pc' = "idle"
    /\ UNCHANGED <<sheet, root, col, i, names, field_updates_dicts, fidx, err, run, file0,
                   unitVars>>

Next ==
    \/ StartRun
    \/ ProcessColumn
    \/ UpsertAnalysis
    \/ RemoveStale
    \/ MergeField
    \/ WriteDocument

----------------------------------------------------------------------------
(* Inputs *)

Col(hdr, blank, eco, fdi, gor, upg) ==
    [hdr |-> hdr, blank |-> blank, eco |-> eco, fdi |-> fdi, gor |-> gor, upg |-> upg]

\* a filled column: Med carbon, Low intensity, GOR 0, upgrader code 2
FilledCol(hdr) ==
    Col(hdr, FALSE, <<VInt(0), VInt(1), VInt(0)>>, <<VInt(1), VInt(0), VInt(0)>>,
        VInt(0), VInt(2))

\* a column with no cell filled
BlankCol(hdr) == Col(hdr, TRUE, <<NaN, NaN, NaN>>, <<NaN, NaN, NaN>>, NaN, NaN)

\* a filled column whose ecosystem_richness block selects nothing
UnselectedCol(hdr) ==
    Col(hdr, FALSE, <<VInt(0), VInt(0), VInt(0)>>, <<VInt(0), VInt(0), VInt(1)>>,
        VFloat(5), VStr(<<"9">>))

\* the last schema row (line 24)
LastRow == ranges[Len(ranges)][2]

Sheet(nrows, cols) == [nrows |-> nrows, cols |-> cols]

\* sheets of the merge check: one and two fields, a missing name, no
\* column, a sheet that ends before the last ranges, one that ends too
\* early for the pops, and a blank column
MergeSheets ==
    { Sheet(LastRow, <<FilledCol(VName("F1"))>>),
      Sheet(LastRow, <<FilledCol(VName("F1")), FilledCol(VName("F2"))>>),
      Sheet(LastRow + 1, <<FilledCol(NaN)>>),
      Sheet(LastRow, <<>>),
      Sheet(100, <<FilledCol(VName("F1"))>>),
      Sheet(60, <<FilledCol(VName("F1"))>>),
      Sheet(LastRow, <<BlankCol(VName("F2"))>>) }

\* top-level nodes a starting document is made of
MaxNodes == 2

T_gas == <<"g", "a", "s">>

OldField(name) ==
    Elem("Field", name, "template", NoAttr, NoAttr, <<>>,
         <<GroupAll, Leaf("name", <<"o", "l", "d">>), Leaf("API", <<"1">>)>>)

UserField(name) ==
    Elem("Field", name, NoAttr, NoAttr, NoAttr, <<>>, <<Leaf("API", <<"7">>)>>)

Folder(kids) == Elem("Folder", NoAttr, NoAttr, NoAttr, NoAttr, <<>>, kids)

EditedAnalysis ==
    Elem("Analysis", "FUSE_run", NoAttr, NoAttr, NoAttr, <<>>,
         <<Leaf("functional_unit", T_gas), Leaf("note", <<"x">>)>>)

OtherAnalysis ==
    Elem("Analysis", "user", NoAttr, NoAttr, NoAttr, <<>>,
         <<GroupAll, Leaf("functional_unit", T_gas)>>)

StartNodes ==
    { OldField("F1"), OldField("Old"), UserField("F1"), EditedAnalysis, OtherAnalysis,
      Folder(<<OldField("F1")>>), Folder(<<OldField("Old")>>), Folder(<<EditedAnalysis>>) }

StartFiles ==
    {[exists |-> FALSE, kids |-> <<>>]}
    \cup {[exists |-> TRUE, kids |-> d] : d \in ListsUpTo(StartNodes, MaxNodes)}

InitWith(files, sheets) ==
    /\ sheet \in sheets
    /\ file \in files
    /\ file0 = file
    /\ pc = "idle"
    /\ root = <<>>
    /\ col = 0
    /\ i = 0
    /\ names = <<>>
    /\ field_updates_dicts = <<>>
    /\ fidx = 0
    /\ csv = <<>>
    /\ err = NoError
    /\ run = 0
    /\ hist = <<>>
    /\ arg = <<>>
    /\ res = NoResult

Init == InitWith(StartFiles, MergeSheets)

Spec == Init /\ [][Next]_vars

\* columns of a sheet of the assembly check
MaxCols == 3

AssembleCols ==
    UNION {{FilledCol(h), BlankCol(h), UnselectedCol(h)} : h \in {NaN, VName("F1")}}

\* row counts: below the header row, too short for the pops, short of the
\* last ranges, exact, and larger
RowCounts == {3, 60, 100, LastRow, LastRow + 6}

AssembleSheets ==
    {Sheet(n, cs) : n \in RowCounts, cs \in ListsUpTo(AssembleCols, MaxCols)}

InitAssemble == InitWith({[exists |-> FALSE, kids |-> <<>>]}, AssembleSheets)

\* the column loop alone
NextAssemble ==
    \/ StartRun
    \/ ProcessColumn

SpecAssemble == InitAssemble /\ [][NextAssemble]_vars

----------------------------------------------------------------------------
(* Properties of the merge *)

\* a run has completed and its document is the file
Written == pc = "idle" /\ hist # <<>>

\* names of the Field elements with the template marker, at any depth
ManagedKeys(kids) ==
    {NodeAt(kids, TemplateFieldPaths(kids)[n]).name : n \in 1..Len(TemplateFieldPaths(kids))}

\* number of Field elements with the template marker and this name
KeyCount(kids, name) ==
    Cardinality({n \in 1..Len(TemplateFieldPaths(kids)) :
                    NodeAt(kids, TemplateFieldPaths(kids)[n]).name = name})

\* C2: after the field reconciliation, every field name the run produced is
\* the key of exactly one Field node with the template marker.
C2_OneNodePerProducedName ==
    Written => \A name \in Keys(field_updates_dicts) : KeyCount(file.kids, name) = 1

\* C3: the removal of stale fields never raises, and after the merge no
\* Field node with the template marker has a name the run did not produce.
C3_StaleRemovedNeverAborts ==
    /\ ~(pc = "aborted" /\ err.line = 319)
    /\ Written => ManagedKeys(file.kids) \subseteq Keys(field_updates_dicts)

\* the Field nodes with the template marker and this name, at any depth
ManagedNodes(kids, name) ==
    {NodeAt(kids, TemplateFieldPaths(kids)[n]) :
        n \in {h \in 1..Len(TemplateFieldPaths(kids)) :
                  NodeAt(kids, TemplateFieldPaths(kids)[h]).name = name}}

\* C4: a run on the document the previous run wrote, with the same sheet,
\* completes, leaves the same set of managed field names, and for each of
\* them Field nodes identical (children, order, attributes, text) to the
\* ones the document held after the previous run.
C4_SecondRunSameFields ==
    /\ ~(pc = "aborted" /\ hist # <<>>)
    /\ \A r \in 2..Len(hist) :
           /\ ManagedKeys(hist[r]) = ManagedKeys(hist[r - 1])
           /\ \A name \in ManagedKeys(hist[r]) :
                  ManagedNodes(hist[r], name) = ManagedNodes(hist[r - 1], name)

OwnedByAnalysis(kid) ==
    \/ kid.tag = "Group" /\ kid.text = T_all
    \/ kid.tag = "A" /\ kid.name \in {analysis_updates[m].key : m \in 1..Len(analysis_updates)}

RECURSIVE Unowned(_)
\* The document without what the merge owns: the managed Field nodes (with
\* their content), and in an Analysis node named FUSE_run the Group marker
\* and the global-setting leaves; an Analysis node named FUSE_run that holds
\* nothing else is owned as a whole.
Unowned(kids) ==
    IF Len(kids) = 0 THEN <<>>
    ELSE LET node == Head(kids)
             rest == Unowned(Tail(kids))
         IN  IF IsTemplateField(node) THEN rest
             ELSE IF IsFuseRun(node)
             THEN LET others == Unowned(SelectSeq(node.kids,
                                                  LAMBDA kid : ~OwnedByAnalysis(kid)))
                  IN  IF others = <<>> THEN rest
                      ELSE <<[node EXCEPT !.kids = others]>> \o rest
             ELSE <<[node EXCEPT !.kids = Unowned(node.kids)]>> \o rest

\* C5: every document a run writes holds, outside the parts the merge owns,
\* the nodes of the starting document, with the same parent, content and
\* relative order.
C5_UnownedPreserved ==
    \A r \in 1..Len(hist) : Unowned(hist[r]) = Unowned(file0.kids)

\* a run completed on a document holding the Analysis node with an extra
\* leaf and a Field without the marker, and changed the document
C5_Witness ==
    /\ Written
    /\ file0.kids = <<EditedAnalysis, UserField("F1")>>
    /\ Keys(field_updates_dicts) = {"Field 501"}
    /\ file.kids # file0.kids
    /\ Unowned(file.kids) = <<[EditedAnalysis EXCEPT !.kids = <<Leaf("note", <<"x">>)>>],
                              UserField("F1")>>

FuseRunPaths(kids) ==
    SelectSeq(PathsOf(kids), LAMBDA path : IsFuseRun(NodeAt(kids, path)))

LeafCount(node, key) == Len(ChildLeaves(node, key))

GroupCount(node) ==
    Len(SelectSeq(node.kids, LAMBDA kid : kid.tag = "Group" /\ kid.text = T_all))

\* C7: after any number of runs from an absent or empty document there is
\* exactly one Analysis node named FUSE_run, with exactly one Group marker
\* and, for each global setting, exactly one leaf, holding the fixed value;
\* and whatever the starting document, a setting leaf that exists is
\* overwritten, not doubled.
C7_SingletonAnalysis ==
    \A r \in 1..Len(hist) :
        LET analysis == NodeAt(hist[r], FindAnalysis(hist[r]))
        IN  /\ FindAnalysis(hist[r]) # <<>>
            /\ GroupCount(analysis) >= 1
            /\ \A m \in 1..Len(analysis_updates) :
                   /\ ChildLeaves(analysis, analysis_updates[m].key)[1].text
                          = analysis_updates[m].val
                   /\ FindAnalysis(file0.kids) # <<>> =>
                          LeafCount(analysis, analysis_updates[m].key)
                              = IF LeafCount(NodeAt(file0.kids, FindAnalysis(file0.kids)),
                                             analysis_updates[m].key) = 0
                                THEN 1
                                ELSE LeafCount(NodeAt(file0.kids, FindAnalysis(file0.kids)),
                                               analysis_updates[m].key)
            /\ file0.kids = <<>> =>
                   /\ Len(FuseRunPaths(hist[r])) = 1
                   /\ GroupCount(analysis) = 1
                   /\ Len(analysis.kids) = 1 + Len(analysis_updates)
                   /\ \A m \in 1..Len(analysis_updates) :
                          LeafCount(analysis, analysis_updates[m].key) = 1

\* two runs completed from an absent document and produced a field
C7_Witness ==
    /\ Len(hist) = 2
    /\ ~file0.exists
    /\ Keys(field_updates_dicts) = {"F1"}
    /\ Len(file.kids) = 2

\* C9: when the sheet ends before the last schema row, no document is
\* written: the run stops at the extraction.
C9_ShortSheetNeverPersisted ==
    (sheet.nrows < LastRow /\ Len(sheet.cols) > 0) => hist = <<>>

----------------------------------------------------------------------------
(* Properties of the column loop *)

\* number of columns among the first j whose display name is missing
MissingUpTo(j) == Cardinality({c \in 1..j : IsNa(sheet.cols[c].hdr)})

\* C8: the k-th column whose display name is missing is named "Field "
\* followed by 500 + k, whether or not the columns before it were skipped
\* or assembled, and the counter equals the number of missing names seen.
C8_SyntheticNames ==
    /\ \A j \in 1..Len(names) :
           IsNa(sheet.cols[j].hdr) => names[j] = "Field " \o ToString(500 + MissingUpTo(j))
    /\ (pc \in {"columns", "aborted"} /\ err.line # 236) => i = MissingUpTo(col)
    /\ \A j, h \in 1..Len(names) :
           (j # h /\ IsNa(sheet.cols[j].hdr) /\ IsNa(sheet.cols[h].hdr)) => names[j] # names[h]

\* a missing name after a skipped column and an assembled one
C8_Witness ==
    /\ names = <<"Field 501", "F1", "Field 502">>
    /\ sheet.cols[1].blank
    /\ Keys(field_updates_dicts) = {"F1", "Field 502"}

----------------------------------------------------------------------------
(* Unit check of the record assembly (lines 244-263) on one column *)

\* rows a sheet of this check may have beyond the last schema row
MaxExtraRows == 1

\* columns whose two selector blocks hold every combination of cells, and
\* a column with no cell filled
PairCols ==
    {BlankCol(VName("F2"))} \cup
    {Col(VName("F2"), blank, eco, fdi, VInt(0), VInt(2)) :
        blank \in BOOLEAN,
        eco \in {l \in ListsUpTo({VInt(0), VInt(1), NaN}, OneHotLen) : Len(l) = OneHotLen},
        fdi \in {l \in ListsUpTo({VInt(0), VFloat(1)}, OneHotLen) : Len(l) = OneHotLen}}

PairSheets ==
    {Sheet(n, cs) :
        \* 100 rows: short of the last ranges, the pops still succeed
        n \in {100} \cup (LastRow..(LastRow + MaxExtraRows)),
        cs \in {<<c>> : c \in PairCols}
               \cup {<<FilledCol(VName("F1")), c>> : c \in PairCols}}

\* lines 244-263 for column c: the exception of the pops, whether the
\* column is skipped (line 255), the number of values left after the pops,
\* and field_updates after line 263
AssembleColumnResult(sh, c) ==
    LET values == extract_field_data(sh, c)
        ecosystem_richness_values == Slice(values, 51, 54)
        field_development_intensity_values == Slice(values, 54, 57)
        popped == PopIndexes(values)
    IN  IF PopRaises(values)
        THEN [err |-> "IndexError", skipped |-> FALSE, left |-> 0, rec |-> <<>>]
        ELSE IF ~\E j \in 1..Len(popped) : ~IsNa(popped[j])
        THEN [err |-> "none", skipped |-> TRUE, left |-> Len(popped), rec |-> <<>>]
        ELSE [err |-> "none", skipped |-> FALSE, left |-> Len(popped),
              rec |-> PairRecord(popped, ecosystem_richness_values,
                                 field_development_intensity_values)]

InitPair ==
    /\ sheet \in PairSheets
    /\ arg \in 1..Len(sheet.cols)
    /\ res = NoResult
    /\ pc = "pair_call"
    /\ file = [exists |-> FALSE, kids |-> <<>>]
    /\ file0 = file
    /\ root = <<>>
    /\ col = 0
    /\ i = 0
    /\ names = <<>>
    /\ field_updates_dicts = <<>>
    /\ fidx = 0
    /\ csv = <<>>
    /\ err = NoError
    /\ run = 0
    /\ hist = <<>>

\* the assembly of the record of column arg
AssembleColumn ==
    /\ pc = "pair_call"
    /\ res' = AssembleColumnResult(sheet, arg)
    /\ pc' = "pair_done"
    /\ UNCHANGED <<arg, pipeVars>>

NextPair == AssembleColumn

SpecPair == InitPair /\ [][NextPair]_vars

OneHotRows == (91..93) \cup (95..97)

\* the schema rows outside the selector blocks, in order
FlatRows == SelectSeq(SchemaRows, LAMBDA r : r \notin OneHotRows)

\* the parameters that hold a scalar, in order
FlatParameters == SelectSeq(parameters, LAMBDA p : p \notin OneHotKeys)

\* the schema row of a scalar parameter: the k-th one has the k-th flat row
OwnRow(param) ==
    FlatRows[CHOOSE k \in 1..Len(FlatParameters) : FlatParameters[k] = param]

\* spec 4.3: a missing value becomes the empty string, any other its string
Stringified(v) == IF IsNa(v) THEN VStr(<<>>) ELSE VStr(PyStr(v))

\* C11: for a column of a sheet that covers all schema rows, the assembled
\* record holds under ecosystem_richness the raw cells of rows 91-93 and
\* under field_development_intensity those of rows 95-97; every other
\* parameter holds the stringified cell of its own schema row, so none holds
\* a selector cell and none is shifted; as many values are left after the
\* pops as there are parameter names, and every parameter is in the record.
C11_PairingIntact ==
    (pc = "pair_done" /\ sheet.nrows >= LastRow /\ ~res.skipped) =>
        LET c == sheet.cols[arg]
        IN  /\ res.err = "none"
            /\ Get(res.rec, "ecosystem_richness") = VList([j \in 1..3 |-> Cell(c, 90 + j)])
            /\ Get(res.rec, "field_development_intensity")
                   = VList([j \in 1..3 |-> Cell(c, 94 + j)])
            /\ Len(FlatParameters) = Len(FlatRows)
            /\ \A k \in 1..Len(FlatParameters) :
                   /\ Has(res.rec, FlatParameters[k])
                   /\ Get(res.rec, FlatParameters[k])
                          = Stringified(Cell(c, OwnRow(FlatParameters[k])))
            /\ res.left = Len(parameters)
            /\ [j \in 1..Len(res.rec) |-> res.rec[j].key] = parameters

\* a filled second column whose selector cells differ from one another and
\* from every flat cell has been assembled
C11_Witness ==
    /\ pc = "pair_done"
    /\ sheet.nrows = LastRow
    /\ arg = 2
    /\ ~sheet.cols[arg].blank
    /\ sheet.cols[arg].eco = <<VInt(0), VInt(1), NaN>>
    /\ sheet.cols[arg].fdi = <<VFloat(1), VInt(0), VInt(0)>>
    /\ Get(res.rec, "ecosystem_richness") = VList(<<VInt(0), VInt(1), NaN>>)
    /\ Get(res.rec, "frac_transport_tanker") = VStr(<<"1", "0", "1">>)
    /\ Get(res.rec, "fraction_diluent") = VStr(<<"8", "7">>)

====
